---- MODULE Spec2Model ----
(***************************************************************************)
(* A model of MyRouge155.py: the synthesis of the ROUGE configuration      *)
(* document from two directory listings (write_config_static,              *)
(* write_config_staticA / ProduceSysModPair), the instance path            *)
(* (write_config, evaluate), and the report parser (output_to_dict).       *)
(*                                                                         *)
(* Text is modelled character by character: a Python string is a sequence  *)
(* of one-character strings, so that prefix matching, sorting, textual     *)
(* substitution and formatting are computed, not assumed.  The literal     *)
(* chunks of the XML templates are kept as single multi-character          *)
(* elements of the same sequences.                                         *)
(***************************************************************************)
EXTENDS Integers, Sequences, FiniteSets, TLC

VARIABLES
    systemDir,      \* the set of filenames in system_dir
    modelDir,       \* the set of filenames in model_dir
    fs,             \* the files written so far: path -> document text
    last,           \* the last call: operation, arguments and outcome
    inst,           \* the fields of the MyRouge155 instance
    tmpCount,       \* how many directories mkdtemp() has created
    runs,           \* the commands the last evaluate call executed
    evalIn,         \* inputs of the last eval-string call
    evalOut,        \* the EVAL element the last eval-string call returned
    output,         \* the ROUGE report text handed to output_to_dict
    parsed,         \* what output_to_dict did with it
    insts,          \* the fields of each instance shared by concurrent runs
    procs           \* each concurrent run: its position and what it did

vars == <<systemDir, modelDir, fs, last, inst, tmpCount, runs,
          evalIn, evalOut, output, parsed, insts, procs>>

(***************************************************************************)
(* Characters and strings                                                  *)
(***************************************************************************)

\* The printable ASCII characters, code points 32..126, in code point order
\* (code point 96 is spelled out: the model never uses it).
AsciiPrintable ==
    << " ", "!", "\"", "#", "$", "%", "&", "'", "(", ")", "*", "+", ",", "-",
       ".", "/", "0", "1", "2", "3", "4", "5", "6", "7", "8", "9", ":", ";",
       "<", "=", ">", "?", "@", "A", "B", "C", "D", "E", "F", "G", "H", "I",
       "J", "K", "L", "M", "N", "O", "P", "Q", "R", "S", "T", "U", "V", "W",
       "X", "Y", "Z", "[", "\\", "]", "^", "_", "(backtick)", "a", "b", "c", "d", "e",
       "f", "g", "h", "i", "j", "k", "l", "m", "n", "o", "p", "q", "r", "s",
       "t", "u", "v", "w", "x", "y", "z", "{", "|", "}", "~" >>

\* ord(c) for the characters the model uses.
OrdTable ==
    [c \in {AsciiPrintable[i] : i \in 1..Len(AsciiPrintable)} |->
        31 + (CHOOSE i \in 1..Len(AsciiPrintable) : AsciiPrintable[i] = c)]

Ord(c) == IF c = "\n" THEN 10 ELSE IF c = "\t" THEN 9 ELSE OrdTable[c]

\* chr(n) for 32 <= n <= 126.
Chr(n) == AsciiPrintable[n - 31]

DigitChars == <<"0", "1", "2", "3", "4", "5", "6", "7", "8", "9">>
Digits == {DigitChars[i] : i \in 1..10}
UpperChars == {Chr(n) : n \in 65..90}
LowerChars == {Chr(n) : n \in 97..122}
SpaceChars == {" ", "\t", "\n", "\r", "\f"}

DigitValue(c) == (CHOOSE i \in 1..10 : DigitChars[i] = c) - 1

\* str(n) for n >= 0, as "{task_id}".format(...) renders an int.
RECURSIVE IntToStr(_)
IntToStr(n) ==
    IF n < 10 THEN <<DigitChars[n + 1]>>
    ELSE IntToStr(n \div 10) \o <<DigitChars[(n % 10) + 1]>>

\* Python's < on strings: lexicographic by code point.
RECURSIVE StrLess(_, _)
StrLess(a, b) ==
    IF a = <<>> THEN b # <<>>
    ELSE IF b = <<>> THEN FALSE
    ELSE IF a[1] = b[1] THEN StrLess(Tail(a), Tail(b))
    ELSE Ord(a[1]) < Ord(b[1])

\* Whether `old` occurs in s at position i.
OccursAt(s, old, i) ==
    /\ i + Len(old) - 1 <= Len(s)
    /\ SubSeq(s, i, i + Len(old) - 1) = old

\* str.replace(old, new): every non-overlapping occurrence, left to right.
RECURSIVE StrReplaceFrom(_, _, _, _)
StrReplaceFrom(s, old, new, i) ==
    IF i > Len(s) THEN <<>>
    ELSE IF OccursAt(s, old, i)
         THEN new \o StrReplaceFrom(s, old, new, i + Len(old))
         ELSE <<s[i]>> \o StrReplaceFrom(s, old, new, i + 1)

StrReplace(s, old, new) == StrReplaceFrom(s, old, new, 1)

\* str.lower() on ASCII.
LowerChar(c) == IF c \in UpperChars THEN Chr(Ord(c) + 32) ELSE c
StrLower(s) == [i \in 1..Len(s) |-> LowerChar(s[i])]

\* str.split(sep) for a one-character separator: the pieces between the
\* separators, always at least one piece.
RECURSIVE StrSplitFrom(_, _, _)
StrSplitFrom(s, sep, i) ==
    LET seps == {p \in i..Len(s) : s[p] = sep}
    IN  IF seps = {} THEN <<SubSeq(s, i, Len(s))>>
        ELSE LET next == CHOOSE p \in seps : \A q \in seps : p <= q
             IN  <<SubSeq(s, i, next - 1)>> \o StrSplitFrom(s, sep, next + 1)

StrSplit(s, sep) == StrSplitFrom(s, sep, 1)

\* sorted(list): ascending, by insertion.
RECURSIVE InsertSorted(_, _)
InsertSorted(x, seq) ==
    IF seq = <<>> THEN <<x>>
    ELSE IF StrLess(x, seq[1]) THEN <<x>> \o seq
    ELSE <<seq[1]>> \o InsertSorted(x, Tail(seq))

RECURSIVE sorted(_)
sorted(seq) ==
    IF seq = <<>> THEN <<>> ELSE InsertSorted(seq[1], sorted(Tail(seq)))

\* The orders in which os.listdir may return the entries of a directory:
\* every permutation of them.
RECURSIVE Listings(_)
Listings(dir) ==
    IF dir = {} THEN {<<>>}
    ELSE UNION {{<<f>> \o l : l \in Listings(dir \ {f})} : f \in dir}

\* sorted(os.listdir(dir)), for every order the listing may arrive in.
SortedListings(dir) == {sorted(l) : l \in Listings(dir)}

(***************************************************************************)
(* Regular expressions: the subset of Python's re the program's patterns   *)
(* use.  Literals, '.', '\d', '\S', '\w', escaped literals, '[a-b]',       *)
(* one capturing group level '(' ')', the greedy '+', and '$'.             *)
(***************************************************************************)

Atom(t, c, d, w) == [t |-> t, c |-> c, d |-> d, w |-> w]

\* The atom starting at p[i], with the number of pattern characters it takes.
AtomAt(p, i) ==
    IF p[i] = "\\" /\ i < Len(p) THEN
        IF p[i + 1] = "d" THEN Atom("digit", "", "", 2)
        ELSE IF p[i + 1] = "S" THEN Atom("nonspace", "", "", 2)
        ELSE IF p[i + 1] = "w" THEN Atom("word", "", "", 2)
        ELSE Atom("lit", p[i + 1], "", 2)
    ELSE IF p[i] = "." THEN Atom("any", "", "", 1)
    ELSE IF p[i] = "(" THEN Atom("open", "", "", 1)
    ELSE IF p[i] = ")" THEN Atom("close", "", "", 1)
    ELSE IF p[i] = "$" THEN Atom("end", "", "", 1)
    ELSE IF p[i] = "[" /\ i + 4 <= Len(p) /\ p[i + 2] = "-" /\ p[i + 4] = "]"
         THEN Atom("range", p[i + 1], p[i + 3], 5)
    ELSE Atom("lit", p[i], "", 1)

\* re.compile(p): the sequence of atoms, each marked with whether '+' follows.
RECURSIVE CompileFrom(_, _)
CompileFrom(p, i) ==
    IF i > Len(p) THEN <<>>
    ELSE LET a == AtomAt(p, i)
             plus == i + a.w <= Len(p) /\ p[i + a.w] = "+"
         IN  <<[t |-> a.t, c |-> a.c, d |-> a.d, plus |-> plus]>>
             \o CompileFrom(p, i + a.w + (IF plus THEN 1 ELSE 0))

re_compile(p) == CompileFrom(p, 1)

\* Whether atom a accepts the single character ch.
Accepts(a, ch) ==
    CASE a.t = "lit"      -> ch = a.c
      [] a.t = "any"      -> ch # "\n"
      [] a.t = "digit"    -> ch \in Digits
      [] a.t = "nonspace" -> ch \notin SpaceChars
      [] a.t = "word"     -> ch \in Digits \cup UpperChars \cup LowerChars \cup {"_"}
      [] a.t = "range"    -> Ord(a.c) <= Ord(ch) /\ Ord(ch) <= Ord(a.d)
      [] OTHER            -> FALSE

NoMatch == [ok |-> FALSE, groups |-> <<>>]

\* How many characters of s from position j on atom a accepts in a row.
RECURSIVE RunLength(_, _, _)
RunLength(a, s, j) ==
    IF j <= Len(s) /\ Accepts(a, s[j]) THEN 1 + RunLength(a, s, j + 1) ELSE 0

\* An atom that takes exactly one character.
Single(a) == a.t \notin {"open", "close", "end"} /\ ~a.plus

\* How many atoms in a row from re[k] on take exactly one character each.
SingleRun(re, k) ==
    LET stops == {i \in k..Len(re) : ~Single(re[i])}
    IN  IF stops = {} THEN Len(re) - k + 1
        ELSE (CHOOSE i \in stops : \A q \in stops : i <= q) - k

\* The backtracking matcher: atoms re[k..] against s[j..]; `open` is where the
\* open group started, `groups` the groups closed so far.  A greedy '+' tries
\* the longest run first and gives characters back one at a time; a run of
\* one-character atoms is matched position by position.
RECURSIVE MatchFrom(_, _, _, _, _, _), TryPlus(_, _, _, _, _, _, _)
MatchFrom(re, s, k, j, open, groups) ==
    IF k > Len(re) THEN [ok |-> TRUE, groups |-> groups]
    ELSE LET a == re[k] IN
        CASE a.t = "open"  -> MatchFrom(re, s, k + 1, j, j, groups)
          [] a.t = "close" ->
                MatchFrom(re, s, k + 1, j, open, Append(groups, SubSeq(s, open, j - 1)))
          [] a.t = "end"   ->
                IF j = Len(s) + 1 \/ (j = Len(s) /\ s[j] = "\n")
                THEN MatchFrom(re, s, k + 1, j, open, groups)
                ELSE NoMatch
          [] OTHER ->
                IF a.plus
                THEN TryPlus(re, s, k, j, RunLength(a, s, j), open, groups)
                ELSE IF /\ j + SingleRun(re, k) - 1 <= Len(s)
                        /\ \A i \in 0..(SingleRun(re, k) - 1) :
                               Accepts(re[k + i], s[j + i])
                     THEN MatchFrom(re, s, k + SingleRun(re, k),
                                    j + SingleRun(re, k), open, groups)
                     ELSE NoMatch

TryPlus(re, s, k, j, n, open, groups) ==
    IF n = 0 THEN NoMatch
    ELSE LET r == MatchFrom(re, s, k + 1, j + n, open, groups)
         IN  IF r.ok THEN r ELSE TryPlus(re, s, k, j, n - 1, open, groups)

\* pattern.match(s): a match anchored at the start of s, not at its end.
re_match(re, s) == MatchFrom(re, s, 1, 1, 1, <<>>)

(***************************************************************************)
(* Python values and exceptions                                            *)
(***************************************************************************)

\* A system_id argument: None, a string, a list of strings or an int.  v holds
\* the string (one element), the list's strings, or the int's digits.
PyNone == [py |-> "None", v |-> <<>>]
PyStr(s) == [py |-> "str", v |-> <<s>>]
PyList(l) == [py |-> "list", v |-> l]
PyInt(n) == [py |-> "int", v |-> <<IntToStr(n)>>]

\* bool(x)
Truthy(x) ==
    CASE x.py = "None" -> FALSE
      [] x.py = "str"  -> x.v[1] # <<>>
      [] x.py = "list" -> x.v # <<>>
      [] x.py = "int"  -> x.v # <<<<"0">>>>

\* "{id}".format(id=x) for None, a string or an int.
Format(x) ==
    CASE x.py = "None" -> <<"N", "o", "n", "e">>
      [] x.py = "str"  -> x.v[1]
      [] x.py = "int"  -> x.v[1]

\* Whether "for e in x" can iterate x, and the elements it yields: the items
\* of a list, the one-character strings of a string.
Iterable(x) == x.py \in {"list", "str"}
Elements(x) ==
    IF x.py = "list" THEN x.v
    ELSE [i \in 1..Len(x.v[1]) |-> <<x.v[1][i]>>]

\* The outcome of a call: a returned value, or the exception that left it.
Return(v) == [exc |-> "", val |-> v]
Raise(e) == [exc |-> e, val |-> <<>>]

\* An exception leaves the statements after the call that raised it undone:
\* Then runs on the value of the outcome only when the call returned.
Bind(outcome, Then(_)) == IF outcome.exc # "" THEN outcome ELSE Then(outcome.val)

\* A local name: "v = <expression>" followed by the statements that use v.
With(value, In(_)) == In(value)

(***************************************************************************)
(* The inputs: directory contents and patterns                             *)
(***************************************************************************)

SystemDirPath == <<"/systems">>
ModelDirPath == <<"/models">>

\* The filenames a system directory may hold.
SystemFiles ==
    { <<"s", "1", ".", "x">>, <<"s", "2", ".", "x">>,
      <<"s", "1", ".", "y">>, <<"s", "2", ".", "y">>,
      <<"t", "1">> }

\* The filenames a model directory may hold.
ModelFiles ==
    { <<"r", "1", "A">>, <<"r", "1", "B">>, <<"r", "2", "A">> }

\* system_filename_pattern  s(\d+)  and model_filename_pattern  r#ID#[A-Z]
SystemPattern == <<"s", "(", "\\", "d", "+", ")">>
ModelPattern == <<"r", "#", "I", "D", "#", "[", "A", "-", "Z", "]">>

IdPlaceholder == <<"#", "I", "D", "#">>

(***************************************************************************)
(* The document generator                                                  *)
(***************************************************************************)

DocOpen == "<ROUGE-EVAL version=\"1.55\">"
DocClose == "</ROUGE-EVAL>"
EvalOpen == "\n    <EVAL ID=\""
ModelRootOpen == "\">\n        <MODEL-ROOT>"
PeerRootOpen == "</MODEL-ROOT>\n        <PEER-ROOT>"
PeersOpen ==
    "</PEER-ROOT>\n        <INPUT-FORMAT TYPE=\"SEE\">\n        </INPUT-FORMAT>\n        <PEERS>\n            "
ModelsOpen == "\n        </PEERS>\n        <MODELS>\n            "
EvalClose == "\n        </MODELS>\n    </EVAL>\n"
POpen == "<P ID=\""
PClose == "</P>"
MOpen == "<M ID=\""
MClose == "</M>"
AttrClose == "\">"
ElemSep == "\n\t\t\t"

\* A variant of model_elem that letters from chr(65 + 1).
model_elem_one_based(i, name) ==
    <<MOpen, Chr(65 + i + 1), AttrClose>> \o name \o <<MClose>>

\* "<M ID=\"{id}\">{name}</M>" with id = chr(65 + i), i counted from 0.
model_elem(i, name) == <<MOpen, Chr(65 + i), AttrClose>> \o name \o <<MClose>>

\* "\n\t\t\t".join(model_elems) over enumerate(model_filenames)
RECURSIVE model_elems_from(_, _)
model_elems_from(model_filenames, i) ==
    IF i >= Len(model_filenames) THEN <<>>
    ELSE (IF i = 0 THEN <<>> ELSE <<ElemSep>>)
         \o model_elem(i, model_filenames[i + 1])
         \o model_elems_from(model_filenames, i + 1)

model_elems(model_filenames) == model_elems_from(model_filenames, 0)

\* The shared template of __get_eval_string and __get_eval_stringA.
eval_template(task_id, model_root, peer_root, peer_elems, models) ==
    <<EvalOpen>> \o IntToStr(task_id) \o <<ModelRootOpen>> \o model_root
    \o <<PeerRootOpen>> \o peer_root \o <<PeersOpen>> \o peer_elems
    \o <<ModelsOpen>> \o models \o <<EvalClose>>

\* __get_eval_string: one peer, labelled with the system_id argument.
get_eval_string(task_id, system_id, system_dir, system_filename, model_dir, model_filenames) ==
    eval_template(task_id, model_dir, system_dir,
        <<POpen>> \o Format(system_id) \o <<AttrClose>> \o system_filename \o <<PClose>>,
        model_elems(model_filenames))

\* The peer loop of __get_eval_stringA: eachpeer = [id, system_id, filename].
RECURSIVE peer_elems_set(_)
peer_elems_set(system_filenames) ==
    IF system_filenames = <<>> THEN <<>>
    ELSE LET eachpeer == system_filenames[1]
         IN  <<POpen>> \o eachpeer[2] \o <<AttrClose>> \o eachpeer[3]
             \o <<PClose, ElemSep>> \o peer_elems_set(Tail(system_filenames))

\* __get_eval_stringA: one peer per entry of system_filenames.
get_eval_stringA(task_id, system_id, system_dir, system_filenames, model_dir, model_filenames) ==
    eval_template(task_id, model_dir, system_dir,
        peer_elems_set(system_filenames), model_elems(model_filenames))

(***************************************************************************)
(* Candidate and reference resolution                                      *)
(***************************************************************************)

\* [f for f in listing if pattern.match(f)], in listing order.
RECURSIVE FilterMatching(_, _)
FilterMatching(re, listing) ==
    IF listing = <<>> THEN <<>>
    ELSE (IF re_match(re, listing[1]).ok THEN <<listing[1]>> ELSE <<>>)
         \o FilterMatching(re, Tail(listing))

\* A variant of __get_model_filenames_for_id without the check for an empty
\* result.
get_model_filenames_for_id_silent(id, model_listing, model_filenames_pattern) ==
    Return(FilterMatching(
        re_compile(StrReplace(model_filenames_pattern, IdPlaceholder, id)),
        model_listing))

\* __get_model_filenames_for_id: model_listing is what os.listdir(model_dir)
\* returned.  The result keeps the listing's order.
get_model_filenames_for_id(id, model_listing, model_filenames_pattern) ==
    With(FilterMatching(
             re_compile(StrReplace(model_filenames_pattern, IdPlaceholder, id)),
             model_listing),
         LAMBDA model_filenames :
             IF model_filenames = <<>> THEN Raise("Exception")
             ELSE Return(model_filenames))

\* The body of the loop of write_config_static for one system_filename: the
\* (system_filename, sorted(model_filenames)) tuple it appends, if any.
static_tuple(match, system_filename, model_listing, model_filename_pattern) ==
    IF ~match.ok THEN Return(<<>>)
    ELSE IF match.groups = <<>> THEN Raise("IndexError")
    ELSE Bind(get_model_filenames_for_id(match.groups[1], model_listing,
                                         model_filename_pattern),
              LAMBDA model_filenames :
                  Return(<<<<system_filename, sorted(model_filenames)>>>>))

\* The loop of write_config_static over sorted(system_filenames): the
\* (system_filename, sorted(model_filenames)) tuples, or the first exception.
RECURSIVE static_tuples(_, _, _, _)
static_tuples(files, system_re, model_listing, model_filename_pattern) ==
    IF files = <<>> THEN Return(<<>>)
    ELSE Bind(static_tuple(re_match(system_re, files[1]), files[1],
                           model_listing, model_filename_pattern),
              LAMBDA first :
                  Bind(static_tuples(Tail(files), system_re, model_listing,
                                     model_filename_pattern),
                       LAMBDA rest : Return(first \o rest)))

\* The body of the document write_config_static writes.
RECURSIVE static_evals(_, _, _)
static_evals(tuples, task_id, system_id) ==
    IF tuples = <<>> THEN <<>>
    ELSE get_eval_string(task_id, system_id, SystemDirPath, tuples[1][1],
                         ModelDirPath, tuples[1][2])
         \o static_evals(Tail(tuples), task_id + 1, system_id)

\* A variant of write_config_static that numbers the tasks from 0.
write_config_static_zero_based(sorted_system_filenames, system_filename_pattern, model_listing, model_filename_pattern, system_id) ==
    Bind(static_tuples(sorted_system_filenames, re_compile(system_filename_pattern),
                       model_listing, model_filename_pattern),
         LAMBDA tuples :
             IF tuples = <<>> THEN Raise("Exception")
             ELSE Return(<<DocOpen>> \o static_evals(tuples, 0, system_id)
                         \o <<DocClose>>))

\* write_config_static: the text it writes to config_file_path, or the
\* exception raised before the file is opened.
write_config_static(sorted_system_filenames, system_filename_pattern, model_listing, model_filename_pattern, system_id) ==
    Bind(static_tuples(sorted_system_filenames, re_compile(system_filename_pattern),
                       model_listing, model_filename_pattern),
         LAMBDA tuples :
             IF tuples = <<>> THEN Raise("Exception")
             ELSE Return(<<DocOpen>> \o static_evals(tuples, 1, system_id)
                         \o <<DocClose>>))

\* The inner loop of ProduceSysModPair for one label: the [id, system_id,
\* system_filename] entries of the sorted listing the label's pattern matches.
id_file_entry(match, eachdir, system_filename) ==
    IF ~match.ok THEN Return(<<>>)
    ELSE IF match.groups = <<>> THEN Raise("IndexError")
    ELSE Return(<<<<match.groups[1], eachdir, system_filename>>>>)

RECURSIVE id_file_set(_, _, _)
id_file_set(files, system_re, eachdir) ==
    IF files = <<>> THEN Return(<<>>)
    ELSE Bind(id_file_entry(re_match(system_re, files[1]), eachdir, files[1]),
              LAMBDA first :
                  Bind(id_file_set(Tail(files), system_re, eachdir),
                       LAMBDA rest : Return(first \o rest)))

\* syspattern = system_filename_pattern + '.' + eachdir + '$'
syspattern(system_filename_pattern, eachdir) ==
    system_filename_pattern \o <<".">> \o eachdir \o <<"$">>

\* The first loop of ProduceSysModPair: one id_file_set per label, each over
\* sorted(system_filenames).
RECURSIVE all_id_system_file(_, _, _)
all_id_system_file(labels, sorted_system_filenames, system_filename_pattern) ==
    IF labels = <<>> THEN Return(<<>>)
    ELSE Bind(id_file_set(sorted_system_filenames,
                  re_compile(syspattern(system_filename_pattern, labels[1])),
                  labels[1]),
              LAMBDA one :
                  Bind(all_id_system_file(Tail(labels), sorted_system_filenames,
                                          system_filename_pattern),
                       LAMBDA rest : Return(<<one>> \o rest)))

\* A variant of the second loop of ProduceSysModPair that resolves the
\* references with the identifier of the last label's entry.
RECURSIVE model_system_tuple_last_label(_, _, _, _)
model_system_tuple_last_label(all, i, model_listing, model_filenames_pattern) ==
    IF i > Len(all[1]) THEN Return(<<>>)
    ELSE IF \E j \in 1..Len(all) : Len(all[j]) < i THEN Raise("IndexError")
    ELSE Bind(get_model_filenames_for_id(all[Len(all)][i][1], model_listing,
                                         model_filenames_pattern),
              LAMBDA model_file_set :
                  Bind(model_system_tuple_last_label(all, i + 1, model_listing,
                                                     model_filenames_pattern),
                       LAMBDA rest :
                           Return(<<<<[j \in 1..Len(all) |-> all[j][i]],
                                      model_file_set>>>> \o rest)))

\* The second loop of ProduceSysModPair, from position i (counted from 1) of
\* the first label's list: the references of that entry's id, then the i-th
\* entry of every label's list.
RECURSIVE model_system_tuple(_, _, _, _)
model_system_tuple(all, i, model_listing, model_filenames_pattern) ==
    IF i > Len(all[1]) THEN Return(<<>>)
    ELSE Bind(get_model_filenames_for_id(all[1][i][1], model_listing,
                                         model_filenames_pattern),
              LAMBDA model_file_set :
                  IF \E j \in 1..Len(all) : Len(all[j]) < i THEN Raise("IndexError")
                  ELSE Bind(model_system_tuple(all, i + 1, model_listing,
                                               model_filenames_pattern),
                            LAMBDA rest :
                                Return(<<<<[j \in 1..Len(all) |-> all[j][i]],
                                           model_file_set>>>> \o rest)))

\* A variant of ProduceSysModPair that cuts every label's list to the length
\* of the shortest one before the second loop.
ProduceSysModPair_shortest(sorted_system_filenames, model_listing, system_idset, model_filenames_pattern, system_filename_pattern) ==
    IF ~Iterable(system_idset) THEN Raise("TypeError")
    ELSE Bind(all_id_system_file(Elements(system_idset), sorted_system_filenames,
                                 system_filename_pattern),
              LAMBDA all :
                  IF all = <<>> THEN Raise("IndexError")
                  ELSE model_system_tuple(
                           [j \in 1..Len(all) |->
                               SubSeq(all[j], 1,
                                      CHOOSE n \in {Len(all[k]) : k \in 1..Len(all)} :
                                          \A k \in 1..Len(all) : n <= Len(all[k]))],
                           1, model_listing, model_filenames_pattern))

\* ProduceSysModPair
ProduceSysModPair(sorted_system_filenames, model_listing, system_idset, model_filenames_pattern, system_filename_pattern) ==
    IF ~Iterable(system_idset) THEN Raise("TypeError")
    ELSE Bind(all_id_system_file(Elements(system_idset), sorted_system_filenames,
                                 system_filename_pattern),
              LAMBDA all :
                  IF all = <<>> THEN Raise("IndexError")
                  ELSE model_system_tuple(all, 1, model_listing,
                                          model_filenames_pattern))

\* The body of the document write_config_staticA writes.
RECURSIVE staticA_evals(_, _, _)
staticA_evals(sys_mod, task_id, system_id) ==
    IF sys_mod = <<>> THEN <<>>
    ELSE get_eval_stringA(task_id, system_id, SystemDirPath, sys_mod[1][1],
                          ModelDirPath, sys_mod[1][2])
         \o staticA_evals(Tail(sys_mod), task_id + 1, system_id)

\* write_config_staticA: the text it writes to config_file_path, or the
\* exception raised before the file is opened.
write_config_staticA(sorted_system_filenames, system_filename_pattern, model_listing, model_filename_pattern, system_id) ==
    Bind(ProduceSysModPair(sorted_system_filenames, model_listing, system_id,
                           model_filename_pattern, system_filename_pattern),
         LAMBDA sys_mod :
             Return(<<DocOpen>> \o staticA_evals(sys_mod, 1, system_id)
                    \o <<DocClose>>))

(***************************************************************************)
(* The static operations                                                   *)
(***************************************************************************)

\* A path is its sequence of components and separators.
\* The config_file_path the static functions are called with:
ConfigPath == <<"/out", "/", "conf.xml">>

\* The system_id arguments write_config_static is called with.
StaticSystemIds == {PyNone, PyStr(<<"7">>)}

\* The system_id arguments write_config_staticA is called with: its default
\* None, and lists of variant labels.
LabelX == <<"x">>
LabelY == <<"y">>
StaticASystemIds ==
    {PyNone, PyList(<<>>), PyList(<<LabelX>>), PyList(<<LabelY>>),
     PyList(<<LabelX, LabelY>>), PyList(<<LabelY, LabelX>>)}

\* codecs.open(path, 'w') ... f.write(text): the file is created or replaced.
WriteFile(files, path, text) ==
    [p \in DOMAIN files \cup {path} |-> IF p = path THEN text ELSE files[p]]

\* An optional path argument: None, or a path.
NonePath == [none |-> TRUE, p |-> <<>>]
SomePath(p) == [none |-> FALSE, p |-> p]

\* The record of a call: the operation, its system_id, config_file_path and
\* rouge_args arguments, the path it targeted, and the exception that left it.
Call(op, sid, cpath, rouge_args, path, exc) ==
    [op |-> op, sid |-> sid, cpath |-> cpath, rouge_args |-> rouge_args,
     path |-> path, exc |-> exc]

NoCall == Call("none", PyNone, NonePath, PyNone, <<>>, "")

\* A call of write_config_static.  The directory listings arrive in any order;
\* the system listing is only ever read through sorted().
WriteConfigStatic ==
    \E sorted_system_filenames \in SortedListings(systemDir),
       model_listing \in Listings(modelDir), system_id \in StaticSystemIds :
        \E r \in {write_config_static(sorted_system_filenames, SystemPattern,
                                      model_listing, ModelPattern, system_id)} :
            /\ fs' = IF r.exc = "" THEN WriteFile(fs, ConfigPath, r.val) ELSE fs
            /\ last' = Call("write_config_static", system_id, SomePath(ConfigPath),
                             PyNone, ConfigPath, r.exc)
            /\ UNCHANGED <<systemDir, modelDir, inst, tmpCount, runs,
                           evalIn, evalOut, output, parsed, insts, procs>>

\* A call of write_config_staticA.
WriteConfigStaticA ==
    \E sorted_system_filenames \in SortedListings(systemDir),
       model_listing \in Listings(modelDir), system_id \in StaticASystemIds :
        \E r \in {write_config_staticA(sorted_system_filenames, SystemPattern,
                                       model_listing, ModelPattern, system_id)} :
            /\ fs' = IF r.exc = "" THEN WriteFile(fs, ConfigPath, r.val) ELSE fs
            /\ last' = Call("write_config_staticA", system_id, SomePath(ConfigPath),
                             PyNone, ConfigPath, r.exc)
            /\ UNCHANGED <<systemDir, modelDir, inst, tmpCount, runs,
                           evalIn, evalOut, output, parsed, insts, procs>>

\* The instance fields before write_config has run: _config_file is None and
\* _config_dir is not set;  args is what __init__ kept of rouge_args.
NoInstance == [config_dir |-> <<>>, config_file |-> <<>>, args |-> PyNone]

NoEval == [fn |-> "none", task_id |-> 0, peers |-> <<>>, model_filenames |-> <<>>]
NoParse == [exc |-> "", val |-> <<>>]

\* What the specifications below leave alone.
Idle ==
    /\ fs = <<>>
    /\ last = NoCall
    /\ inst = NoInstance
    /\ tmpCount = 0
    /\ runs = <<>>
    /\ evalIn = NoEval
    /\ evalOut = <<>>
    /\ output = <<>>
    /\ parsed = NoParse
    /\ insts = <<>>
    /\ procs = <<>>

\* Two directories of summaries, nothing written yet.
Init ==
    /\ systemDir \in SUBSET SystemFiles
    /\ modelDir \in SUBSET ModelFiles
    /\ Idle

Next == WriteConfigStatic \/ WriteConfigStaticA

Spec == Init /\ [][Next]_vars

(***************************************************************************)
(* Reading a written document back                                         *)
(***************************************************************************)

\* The first position >= i of text that holds tok, or 0.
RECURSIVE IndexFrom(_, _, _)
IndexFrom(text, tok, i) ==
    IF i > Len(text) THEN 0
    ELSE IF text[i] = tok THEN i
    ELSE IndexFrom(text, tok, i + 1)

\* The <P> or <M> elements of text from position i on: ID attribute and body.
RECURSIVE Entries(_, _, _, _)
Entries(text, open, close, i) ==
    LET a == IndexFrom(text, open, i)
        b == IndexFrom(text, AttrClose, a)
        c == IndexFrom(text, close, b)
    IN  IF a = 0 THEN <<>>
        ELSE <<[id |-> SubSeq(text, a + 1, b - 1), name |-> SubSeq(text, b + 1, c - 1)]>>
             \o Entries(text, open, close, c + 1)

\* The EVAL elements of text from position i on.
RECURSIVE Segments(_, _)
Segments(text, i) ==
    LET a == IndexFrom(text, EvalOpen, i)
        e == IndexFrom(text, EvalClose, a)
    IN  IF a = 0 THEN <<>>
        ELSE <<SubSeq(text, a, e)>> \o Segments(text, e + 1)

\* One EVAL element: its ID attribute, its peers and its models.
Task(seg) ==
    [id     |-> SubSeq(seg, 2, IndexFrom(seg, ModelRootOpen, 1) - 1),
     peers  |-> Entries(seg, POpen, PClose, 1),
     models |-> Entries(seg, MOpen, MClose, 1)]

\* The tasks of a document, in document order.
DocTasks(text) ==
    LET segs == Segments(text, 1) IN [k \in 1..Len(segs) |-> Task(segs[k])]

\* The value of a decimal numeral.
RECURSIVE DecimalValue(_)
DecimalValue(s) ==
    IF s = <<>> THEN 0
    ELSE 10 * DecimalValue(SubSeq(s, 1, Len(s) - 1)) + DigitValue(s[Len(s)])

Names(entries) == [k \in 1..Len(entries) |-> entries[k].name]
Ids(entries) == [k \in 1..Len(entries) |-> entries[k].id]
Range(seq) == {seq[k] : k \in 1..Len(seq)}

\* Whether a sequence of strings is strictly ascending.
Ascending(seq) == \A k \in 1..(Len(seq) - 1) : StrLess(seq[k], seq[k + 1])

(***************************************************************************)
(* What the directories hold, stated without the resolver                  *)
(***************************************************************************)

Matches(pattern, f) == re_match(re_compile(pattern), f).ok
IdOf(pattern, f) == re_match(re_compile(pattern), f).groups[1]

\* The model files that prefix-match the model pattern with #ID# replaced.
ReferencesOf(id) ==
    {f \in modelDir : Matches(StrReplace(ModelPattern, IdPlaceholder, id), f)}

\* The candidates of the single-variant path, and of one variant label.
StaticCandidates == {f \in systemDir : Matches(SystemPattern, f)}
VariantCandidates(label) ==
    {f \in systemDir : Matches(syspattern(SystemPattern, label), f)}

\* The set S of strings as the ascending sequence.
RECURSIVE AscendingSeq(_)
AscendingSeq(S) ==
    IF S = {} THEN <<>>
    ELSE LET least == CHOOSE x \in S : \A y \in S \ {x} : StrLess(x, y)
         IN  <<least>> \o AscendingSeq(S \ {least})

Labels(sid) == IF Iterable(sid) THEN Elements(sid) ELSE <<>>

StaticOps == {"write_config_static", "write_config_staticA"}

\* The identifiers of every candidate a call matched, under any label.
MatchedIds(call) ==
    IF call.op = "write_config_static"
    THEN {IdOf(SystemPattern, f) : f \in StaticCandidates}
    ELSE UNION {{IdOf(syspattern(SystemPattern, Labels(call.sid)[j]), f) :
                    f \in VariantCandidates(Labels(call.sid)[j])} :
                j \in 1..Len(Labels(call.sid))}

\* The identifiers that key a task: every candidate of the single-variant
\* path, the candidates of the first label in the multi-variant path.
KeyIds(call) ==
    IF call.op = "write_config_static"
    THEN {IdOf(SystemPattern, f) : f \in StaticCandidates}
    ELSE IF Labels(call.sid) = <<>> THEN {}
    ELSE {IdOf(syspattern(SystemPattern, Labels(call.sid)[1]), f) :
             f \in VariantCandidates(Labels(call.sid)[1])}

\* Every task of the document at the call's path has a reference entry.
EveryTaskHasReference(files, call) ==
    \A k \in 1..Len(DocTasks(files[call.path])) :
        DocTasks(files[call.path])[k].models # <<>>

(***************************************************************************)
(* C1  Fail-fast on missing references                                     *)
(***************************************************************************)

\* C1, as stated: in write_config_static and in write_config_staticA, if any
\* matched candidate's identifier has no prefix-matching file in the model
\* directory, the call raises and leaves the configuration file as it was;
\* and every task of a document that is written has a reference entry.
C1_AnyMatchedCandidate ==
    [][ /\ (/\ last'.op \in StaticOps
            /\ \E id \in MatchedIds(last') : ReferencesOf(id) = {})
           => (last'.exc # "" /\ fs' = fs)
        /\ (last'.op \in StaticOps /\ last'.exc = "")
           => EveryTaskHasReference(fs', last') ]_vars

\* C1, amended: the same of every candidate whose identifier keys a task: all
\* matched candidates in write_config_static, the candidates of the first
\* variant label in ProduceSysModPair.  The identifiers of later labels'
\* candidates are never resolved.
C1_FailFastMissingReferences ==
    [][ /\ (/\ last'.op \in StaticOps
            /\ \E id \in KeyIds(last') : ReferencesOf(id) = {})
           => (last'.exc # "" /\ fs' = fs)
        /\ (last'.op \in StaticOps /\ last'.exc = "")
           => EveryTaskHasReference(fs', last') ]_vars

\* A multi-variant call found a first-label candidate without references and
\* raised, and the document an earlier call wrote is still there.
C1_Witness ==
    /\ last.op = "write_config_staticA"
    /\ \E id \in KeyIds(last) : ReferencesOf(id) = {}
    /\ last.exc = "Exception"
    /\ ConfigPath \in DOMAIN fs
    /\ Len(DocTasks(fs[ConfigPath])) > 0

(***************************************************************************)
(* C2  Fail-fast on an empty candidate set                                 *)
(***************************************************************************)

\* No file of the system directory matches the call's candidate pattern.
NoCandidates(call) ==
    IF call.op = "write_config_static" THEN StaticCandidates = {}
    ELSE \A j \in 1..Len(Labels(call.sid)) :
            VariantCandidates(Labels(call.sid)[j]) = {}

\* C2: whenever no file in the system directory matches the candidate
\* pattern, configuration writing raises and writes no document, in
\* write_config_static and in write_config_staticA, for every list of labels.
C2_FailFastNoCandidates ==
    (last.op \in StaticOps /\ NoCandidates(last)) => last.exc # ""

(***************************************************************************)
(* C3  Determinism across listing orders                                   *)
(***************************************************************************)

\* The outcome of the call `call` had the listings arrived as given.
Rerun(call, sorted_system_filenames, model_listing) ==
    IF call.op = "write_config_static"
    THEN write_config_static(sorted_system_filenames, SystemPattern,
                             model_listing, ModelPattern, call.sid)
    ELSE write_config_staticA(sorted_system_filenames, SystemPattern,
                              model_listing, ModelPattern, call.sid)

\* C3: any other run over the same directories, with the same patterns and
\* labels, writes the same text as the run that just wrote the document,
\* whatever order the listings arrive in.
C3_SameTextForEveryListing ==
    (last.op \in StaticOps /\ last.exc = "") =>
        \A sorted_system_filenames \in SortedListings(systemDir),
           model_listing \in Listings(modelDir) :
            LET r == Rerun(last, sorted_system_filenames, model_listing)
            IN  r.exc = "" /\ r.val = fs[last.path]

(***************************************************************************)
(* C5  Single-variant resolution                                           *)
(***************************************************************************)

\* C5: a document written by write_config_static holds exactly one task per
\* file that prefix-matches the system pattern and none for other files, in
\* ascending filename order, the k-th task has EVAL ID k, and each task has
\* exactly one peer, whose body is the candidate's filename.
C5_SingleVariantTasks ==
    (last.op = "write_config_static" /\ last.exc = "") =>
        LET tasks == DocTasks(fs[last.path])
            peer == [k \in 1..Len(tasks) |-> tasks[k].peers[1].name]
        IN  /\ \A k \in 1..Len(tasks) :
                  /\ Len(tasks[k].peers) = 1
                  /\ DecimalValue(tasks[k].id) = k
            /\ Range(peer) = StaticCandidates
            /\ Len(tasks) = Cardinality(StaticCandidates)
            /\ Ascending(peer)

\* A document with several tasks, written from a directory that also holds
\* a file the pattern does not match.
C5_Witness ==
    /\ last.op = "write_config_static"
    /\ last.exc = ""
    /\ Len(DocTasks(fs[last.path])) >= 3
    /\ systemDir \ StaticCandidates # {}

(***************************************************************************)
(* C6  Reference resolution                                                *)
(***************************************************************************)

\* The identifier of a written task: the first capturing group of the match
\* of its (first) peer's filename.
TaskIdentifier(call, task) ==
    IF call.op = "write_config_static"
    THEN IdOf(SystemPattern, task.peers[1].name)
    ELSE IdOf(syspattern(SystemPattern, Labels(call.sid)[1]), task.peers[1].name)

\* C6: in both paths, the reference list of every task is exactly the model
\* files that prefix-match the model pattern with #ID# replaced by the task's
\* identifier, in lexicographically sorted order.
C6_ReferencesSorted ==
    (last.op \in StaticOps /\ last.exc = "") =>
        \A k \in 1..Len(DocTasks(fs[last.path])) :
            LET task == DocTasks(fs[last.path])[k]
            IN  Names(task.models) = AscendingSeq(ReferencesOf(TaskIdentifier(last, task)))

(***************************************************************************)
(* C7  Multi-variant positional zip                                        *)
(***************************************************************************)

\* C7: with labels L1..Lm, a document written by write_config_staticA has as
\* many tasks as the first label has candidates; the task at position p has
\* exactly the peers (Lj, p-th filename of label j's sorted candidate list),
\* j = 1..m in label order, whatever their identifiers; and its references
\* are those of the identifier of the first label's p-th candidate.
C7_PositionalZip ==
    (last.op = "write_config_staticA" /\ last.exc = "") =>
        LET labels == Labels(last.sid)
            cands == [j \in 1..Len(labels) |-> AscendingSeq(VariantCandidates(labels[j]))]
            tasks == DocTasks(fs[last.path])
        IN  /\ Len(tasks) = Len(cands[1])
            /\ \A p \in 1..Len(tasks) :
                  /\ Len(tasks[p].peers) = Len(labels)
                  /\ \A j \in 1..Len(labels) :
                        /\ tasks[p].peers[j].id = labels[j]
                        /\ tasks[p].peers[j].name = cands[j][p]
                  /\ Range(Names(tasks[p].models)) =
                        ReferencesOf(IdOf(syspattern(SystemPattern, labels[1]), cands[1][p]))
                  /\ Len(tasks[p].models) =
                        Cardinality(ReferencesOf(
                            IdOf(syspattern(SystemPattern, labels[1]), cands[1][p])))

\* A written task pairs two peers whose identifiers differ.
C7_Witness ==
    /\ last.op = "write_config_staticA"
    /\ last.exc = ""
    /\ Len(Labels(last.sid)) = 2
    /\ \E p \in 1..Len(DocTasks(fs[last.path])) :
          LET peers == DocTasks(fs[last.path])[p].peers
          IN  IdOf(SystemPattern, peers[1].name) # IdOf(SystemPattern, peers[2].name)

(***************************************************************************)
(* The eval-string functions on reference lists of every supported length  *)
(***************************************************************************)

\* The longest reference list handed to the eval-string functions.
MaxRefs == 26

\* How many ways the reference names of one list are rotated.
MaxShift == 1

\* The k-th reference filename: m1, m2, ...
RefName(k) == <<"m">> \o IntToStr(k)

\* n distinct reference filenames, rotated by d: lists in no particular order.
RefList(n, d) == [i \in 1..n |-> RefName(((i + d - 1) % n) + 1)]

RefLists == {RefList(n, d) : n \in 1..MaxRefs, d \in 0..MaxShift}

\* The peer lists __get_eval_stringA is handed: [id, system_id, filename].
PeerLists ==
    { <<<<<<"1">>, LabelX, <<"s", "1", ".", "x">>>>>>,
      <<<<<<"1">>, LabelX, <<"s", "1", ".", "x">>>>,
        <<<<"1">>, LabelY, <<"s", "1", ".", "y">>>>>> }

\* A call of __get_eval_string.
GetEvalString ==
    \E task_id \in 1..2, model_filenames \in RefLists :
        /\ evalIn' = [fn |-> "get_eval_string", task_id |-> task_id,
                      peers |-> <<>>, model_filenames |-> model_filenames]
        /\ evalOut' = get_eval_string(task_id, PyNone, SystemDirPath,
                          <<"s", "1", ".", "x">>, ModelDirPath, model_filenames)
        /\ UNCHANGED <<systemDir, modelDir, fs, last, inst, tmpCount, runs,
                       output, parsed, insts, procs>>

\* A call of __get_eval_stringA.
GetEvalStringA ==
    \E task_id \in 1..2, peers \in PeerLists, model_filenames \in RefLists :
        /\ evalIn' = [fn |-> "get_eval_stringA", task_id |-> task_id,
                      peers |-> peers, model_filenames |-> model_filenames]
        /\ evalOut' = get_eval_stringA(task_id, PyList(<<LabelX, LabelY>>),
                          SystemDirPath, peers, ModelDirPath, model_filenames)
        /\ UNCHANGED <<systemDir, modelDir, fs, last, inst, tmpCount, runs,
                       output, parsed, insts, procs>>

InitEval == systemDir = {} /\ modelDir = {} /\ Idle

NextEval == GetEvalString \/ GetEvalStringA

SpecEval == InitEval /\ [][NextEval]_vars

(***************************************************************************)
(* C4  Matching completeness                                               *)
(***************************************************************************)

Letters ==
    <<"A", "B", "C", "D", "E", "F", "G", "H", "I", "J", "K", "L", "M",
      "N", "O", "P", "Q", "R", "S", "T", "U", "V", "W", "X", "Y", "Z">>

\* C4: for a reference list of N filenames, 1 <= N <= 26, the EVAL element
\* holds exactly N <M> entries, the i-th with the i-th letter of A..Z as its
\* ID and the i-th filename of the list as its body, and no letter twice.
C4_MatchingCompleteness ==
    (evalIn.fn # "none" /\ Len(evalIn.model_filenames) <= Len(Letters)) =>
        LET m == Entries(evalOut, MOpen, MClose, 1)
        IN  /\ Len(m) = Len(evalIn.model_filenames)
            /\ \A i \in 1..Len(m) :
                  /\ m[i].id = <<Letters[i]>>
                  /\ m[i].name = evalIn.model_filenames[i]
            /\ \A i, j \in 1..Len(m) : i # j => m[i].id # m[j].id

\* An element with 26 references, not in sorted order, the last lettered Z.
C4_Witness ==
    /\ evalIn.fn = "get_eval_stringA"
    /\ Len(evalIn.model_filenames) = Len(Letters)
    /\ ~Ascending(evalIn.model_filenames)
    /\ Entries(evalOut, MOpen, MClose, 1)[Len(Letters)].id = <<"Z">>

(***************************************************************************)
(* The instance path: __init__, write_config, evaluate                     *)
(***************************************************************************)

\* The last position of p that holds the separator, or 0.
RECURSIVE LastSep(_, _)
LastSep(p, i) == IF i = 0 THEN 0 ELSE IF p[i] = "/" THEN i ELSE LastSep(p, i - 1)

\* os.path.split(p): (head, tail), the tail holding no separator.
os_path_split(p) ==
    LET i == LastSep(p, Len(p))
    IN  <<SubSeq(p, 1, i - 1), SubSeq(p, i + 1, Len(p))>>

\* os.path.join(dir, name)
os_path_join(dir, name) == IF dir = <<>> THEN name ELSE dir \o <<"/">> \o name

\* The n-th directory mkdtemp() creates.
mkdtemp(n) == <<"/tmp/tmp">> \o IntToStr(n)

\* The directories verify_dir accepts.
ExistingDirs == {<<"/out">>}

\* str.split(): the maximal runs of non-whitespace characters.
RECURSIVE SplitWsFrom(_, _, _)
SplitWsFrom(s, i, cur) ==
    IF i > Len(s) THEN (IF cur = <<>> THEN <<>> ELSE <<cur>>)
    ELSE IF s[i] \in SpaceChars
         THEN (IF cur = <<>> THEN <<>> ELSE <<cur>>) \o SplitWsFrom(s, i + 1, <<>>)
         ELSE SplitWsFrom(s, i + 1, Append(cur, s[i]))

str_split(s) == SplitWsFrom(s, 1, <<>>)

QuotMarkPattern == <<"\"", "(", ".", "+", ")", "\"">>

\* __clean_rouge_args: None for no arguments, the inside of enclosing
\* quotation marks, or the arguments as they are.
clean_rouge_args(rouge_args) ==
    IF ~Truthy(rouge_args) THEN PyNone
    ELSE With(re_match(re_compile(QuotMarkPattern), rouge_args.v[1]),
              LAMBDA match : IF match.ok THEN PyStr(match.groups[1]) ELSE rouge_args)

BinPath == <<"/rouge/ROUGE-1.5.5.pl">>
DataDir == <<"/rouge/data">>
PerlPath == <<"perl">>

ConfidenceLevel == 95
Resamplings == 1000
MaxNgram == 4

\* A variant of __add_config_option that puts -m and the file first.
add_config_option_first(self, options) ==
    <<<<"-", "m">>>> \o <<self.config_file>> \o options

\* __add_config_option
add_config_option(self, options) == options \o <<<<"-", "m">>>> \o <<self.config_file>>

\* __get_options: the instance's args, else the call's rouge_args, else the
\* defaults; then -m and the configuration file.
get_options(self, rouge_args) ==
    add_config_option(self,
        IF Truthy(self.args) THEN str_split(self.args.v[1])
        ELSE IF Truthy(rouge_args) THEN str_split(rouge_args.v[1])
        ELSE << <<"-", "e">>, DataDir, <<"-", "c">>, IntToStr(ConfidenceLevel),
                <<"-", "U">>, <<"-", "r">>, IntToStr(Resamplings),
                <<"-", "n">>, IntToStr(MaxNgram), <<"-", "a">> >>)

\* The outcome of an instance method: the instance, the files and the number
\* of temporary directories after it, the commands it ran, and its exception.
Outcome(self, files, tmp, cmds, exc) ==
    [self |-> self, files |-> files, tmp |-> tmp, cmds |-> cmds, exc |-> exc]

\* Lines 303-313 of write_config: where the configuration file goes.  A path
\* that is None or empty, or has no directory part, takes a new temporary
\* directory and the name rouge_conf.xml; any other path must name an
\* existing directory.
config_file_target(self, files, tmp, config_file_path) ==
    With(os_path_split(config_file_path.p), LAMBDA given :
    With(IF config_file_path.none THEN self.config_dir ELSE given[1], LAMBDA config_dir :
        IF config_file_path.none \/ config_file_path.p = <<>> \/ config_dir = <<>>
        THEN Outcome([self EXCEPT !.config_dir = mkdtemp(tmp + 1),
                                  !.config_file = os_path_join(mkdtemp(tmp + 1),
                                                               <<"rouge_conf.xml">>)],
                     files, tmp + 1, <<>>, "")
        ELSE IF given[1] \notin ExistingDirs
        THEN Outcome([self EXCEPT !.config_dir = config_dir], files, tmp, <<>>,
                     "Exception")
        ELSE Outcome([self EXCEPT !.config_dir = config_dir,
                                  !.config_file = os_path_join(config_dir, given[2])],
                     files, tmp, <<>>, "")))

\* Lines 314-317 of write_config: the call of write_config_staticA on the
\* instance's directories, patterns and configuration file.
write_config_file(self, files, tmp, r) ==
    IF r.exc # "" THEN Outcome(self, files, tmp, <<>>, r.exc)
    ELSE Outcome(self, WriteFile(files, self.config_file, r.val), tmp, <<>>, "")

\* write_config: a system_id that is not truthy becomes the integer 1.
write_config(self, files, tmp, sorted_system_filenames, model_listing, config_file_path, system_id) ==
    With(config_file_target(self, files, tmp, config_file_path), LAMBDA t :
        IF t.exc # "" THEN t
        ELSE write_config_file(t.self, files, t.tmp,
                 write_config_staticA(sorted_system_filenames, SystemPattern,
                     model_listing, ModelPattern,
                     IF ~Truthy(system_id) THEN PyInt(1) ELSE system_id)))

\* A variant of evaluate that runs the ROUGE script whether or not
\* write_config raised.
evaluate_unguarded(self, files, tmp, sorted_system_filenames, model_listing, system_id, conf_path, rouge_args, status) ==
    With(write_config(self, files, tmp, sorted_system_filenames, model_listing,
                      conf_path, system_id),
         LAMBDA w :
             Outcome(w.self, w.files, w.tmp,
                     << <<PerlPath, BinPath>> \o get_options(w.self, rouge_args) >>,
                     IF w.exc # "" THEN w.exc
                     ELSE IF status = 0 THEN "" ELSE "CalledProcessError"))

\* evaluate: write_config, then one run of the ROUGE script, which exits with
\* status 0 or not.
evaluate(self, files, tmp, sorted_system_filenames, model_listing, system_id, conf_path, rouge_args, status) ==
    With(write_config(self, files, tmp, sorted_system_filenames, model_listing,
                      conf_path, system_id),
         LAMBDA w :
             IF w.exc # "" THEN w
             ELSE Outcome(w.self, w.files, w.tmp,
                          << <<PerlPath, BinPath>> \o get_options(w.self, rouge_args) >>,
                          IF status = 0 THEN "" ELSE "CalledProcessError"))

\* __process_summaries: a new temporary directory takes a copy of every file
\* of the system and the model directory under its own name, and the instance
\* reads its summaries from there.  The directories are known by the names
\* they hold, which stay as they are.
process_summaries(tmp) == tmp + 1

\* What a positional argument that arrives in evaluate's conf_path stands
\* for there.
as_conf_path(value) == IF value = PyNone THEN NonePath ELSE SomePath(value.v[1])

\* convert_and_evaluate: the optional sentence splitting and the conversion,
\* then  self.evaluate(system_id, rouge_args) : two positional arguments, the
\* second of which is evaluate's conf_path; evaluate's own rouge_args keeps
\* its default None.
convert_and_evaluate(self, files, tmp, sorted_system_filenames, model_listing, system_id, split_sentences, rouge_args, status) ==
    evaluate(self, files,
             process_summaries(IF split_sentences THEN process_summaries(tmp) ELSE tmp),
             sorted_system_filenames, model_listing, system_id,
             as_conf_path(rouge_args), PyNone, status)

\* The filenames the directories of the instance may hold.
InstSystemFiles == { <<"s", "1", ".", "x">> }
InstModelFiles == { <<"r", "1", "A">> }

\* The rouge_args the instance is constructed with, and evaluate is called with.
CtorRougeArgs == {PyNone, PyStr(<<"\"", "-", "a", "\"">>)}
CallRougeArgs == {PyNone, PyStr(<<"-", "n", " ", "2">>)}

\* The config_file_path arguments: None, a path in a directory, a bare name,
\* and a path in a directory that does not exist.
ConfigPathArgs ==
    {NonePath, SomePath(ConfigPath), SomePath(<<"conf.xml">>),
     SomePath(<<"/nodir", "/", "conf.xml">>)}

\* The system_id arguments of write_config: its default None, and a list.
WriteConfigSystemIds == {PyNone, PyList(<<LabelX>>)}

\* The system_id arguments of evaluate: its default 'None', and a list.
DefaultSystemId == PyStr(<<"N", "o", "n", "e">>)
EvaluateSystemIds == {DefaultSystemId, PyList(<<LabelX>>)}

\* The exit statuses of the ROUGE script.
ExitStatuses == {0, 1}

\* How many temporary directories the model lets mkdtemp create.
MaxTmp == 2

\* Whether the call would take a new temporary directory.
NeedsTemp(self, config_file_path) ==
    \/ config_file_path.none
    \/ os_path_split(config_file_path.p)[1] = <<>>

\* A call of write_config.
WriteConfig ==
    \E sorted_system_filenames \in SortedListings(systemDir),
       model_listing \in Listings(modelDir),
       config_file_path \in ConfigPathArgs, system_id \in WriteConfigSystemIds :
        \E r \in {write_config(inst, fs, tmpCount, sorted_system_filenames,
                               model_listing, config_file_path, system_id)} :
            /\ NeedsTemp(inst, config_file_path) => tmpCount < MaxTmp
            /\ inst' = r.self
            /\ fs' = r.files
            /\ tmpCount' = r.tmp
            /\ runs' = r.cmds
            /\ last' = Call("write_config", system_id, config_file_path, PyNone,
                            r.self.config_file, r.exc)
            /\ UNCHANGED <<systemDir, modelDir, evalIn, evalOut, output, parsed, insts, procs>>

\* A call of evaluate.
Evaluate ==
    \E sorted_system_filenames \in SortedListings(systemDir),
       model_listing \in Listings(modelDir),
       system_id \in EvaluateSystemIds, conf_path \in ConfigPathArgs,
       rouge_args \in CallRougeArgs, status \in ExitStatuses :
        \E r \in {evaluate(inst, fs, tmpCount, sorted_system_filenames,
                           model_listing, system_id, conf_path, rouge_args, status)} :
            /\ NeedsTemp(inst, conf_path) => tmpCount < MaxTmp
            /\ inst' = r.self
            /\ fs' = r.files
            /\ tmpCount' = r.tmp
            /\ runs' = r.cmds
            /\ last' = Call("evaluate", system_id, conf_path, rouge_args,
                            r.self.config_file, r.exc)
            /\ UNCHANGED <<systemDir, modelDir, evalIn, evalOut, output, parsed, insts, procs>>

\* The system_id arguments of convert_and_evaluate: its default 1, and a list.
ConvertSystemIds == {PyInt(1), PyList(<<LabelX>>)}

\* A call of convert_and_evaluate, split_sentences left at its default.  It
\* creates a temporary directory for each pass over the summaries, and one
\* more where the configuration file needs it.
ConvertAndEvaluate ==
    \E sorted_system_filenames \in SortedListings(systemDir),
       model_listing \in Listings(modelDir),
       system_id \in ConvertSystemIds, split_sentences \in {FALSE},
       rouge_args \in CallRougeArgs, status \in ExitStatuses :
        \E r \in {convert_and_evaluate(inst, fs, tmpCount, sorted_system_filenames,
                                       model_listing, system_id, split_sentences,
                                       rouge_args, status)} :
            /\ tmpCount + (IF split_sentences THEN 2 ELSE 1)
                        + (IF NeedsTemp(inst, as_conf_path(rouge_args)) THEN 1 ELSE 0)
                  <= MaxTmp
            /\ inst' = r.self
            /\ fs' = r.files
            /\ tmpCount' = r.tmp
            /\ runs' = r.cmds
            /\ last' = Call("convert_and_evaluate", system_id, NonePath, rouge_args,
                            r.self.config_file, r.exc)
            /\ UNCHANGED <<systemDir, modelDir, evalIn, evalOut, output, parsed, insts, procs>>

\* An instance just constructed, over two directories of summaries.
InitInst ==
    /\ systemDir \in SUBSET InstSystemFiles
    /\ modelDir \in SUBSET InstModelFiles
    /\ \E rouge_args \in CtorRougeArgs :
          inst = [NoInstance EXCEPT !.args = clean_rouge_args(rouge_args)]
    /\ fs = <<>>
    /\ last = NoCall
    /\ tmpCount = 0
    /\ runs = <<>>
    /\ evalIn = NoEval
    /\ evalOut = <<>>
    /\ output = <<>>
    /\ parsed = NoParse
    /\ insts = <<>>
    /\ procs = <<>>

NextInst == WriteConfig \/ Evaluate \/ ConvertAndEvaluate

SpecInst == InitInst /\ [][NextInst]_vars

(***************************************************************************)
(* C8  No-variant fallback on the instance path                            *)
(***************************************************************************)

InstanceOps == {"write_config", "evaluate"}

\* The call supplied no variant labels: write_config with system_id None,
\* evaluate with its default system_id.
NoLabelsSupplied(call) ==
    \/ call.op = "write_config" /\ call.sid = PyNone
    \/ call.op = "evaluate" /\ call.sid = DefaultSystemId

\* The configuration path of the call can be written.
WritablePath(call) ==
    call.cpath.none \/ os_path_split(call.cpath.p)[1] \in ExistingDirs \cup {<<>>}

\* C8: a call of write_config or evaluate that supplies no variant labels, on
\* directories where some file matches the unmodified system pattern and every
\* such file has references, writes the configuration: one task per matching
\* file, each with exactly one peer, all peers carrying the same ID.
C8_NoVariantFallback ==
    (/\ last.op \in InstanceOps
     /\ NoLabelsSupplied(last)
     /\ WritablePath(last)
     /\ StaticCandidates # {}
     /\ \A f \in StaticCandidates : ReferencesOf(IdOf(SystemPattern, f)) # {})
    => /\ last.exc \in {"", "CalledProcessError"}
       /\ last.path \in DOMAIN fs
       /\ LET tasks == DocTasks(fs[last.path])
          IN  /\ Len(tasks) = Cardinality(StaticCandidates)
              /\ \A k \in 1..Len(tasks) : Len(tasks[k].peers) = 1
              /\ {tasks[k].peers[1].name : k \in 1..Len(tasks)} = StaticCandidates
              /\ Cardinality({tasks[k].peers[1].id : k \in 1..Len(tasks)}) = 1

(***************************************************************************)
(* The report parser: output_to_dict                                       *)
(***************************************************************************)

\* r"(\d+) (ROUGE-\S+) (Average_\w): (\d.\d+) \(95%-conf.int. (\d.\d+) - (\d.\d+)\)"
ReportPattern ==
    <<"(", "\\", "d", "+", ")", " ", "(", "R", "O", "U", "G", "E", "-", "\\",
      "S", "+", ")", " ", "(", "A", "v", "e", "r", "a", "g", "e", "_", "\\",
      "w", ")", ":", " ", "(", "\\", "d", ".", "\\", "d", "+", ")", " ",
      "\\", "(", "9", "5", "%", "-", "c", "o", "n", "f", ".", "i", "n", "t",
      ".", " ", "(", "\\", "d", ".", "\\", "d", "+", ")", " ", "-", " ", "(",
      "\\", "d", ".", "\\", "d", "+", ")", "\\", ")">>

Average_R == <<"A", "v", "e", "r", "a", "g", "e", "_", "R">>
Average_P == <<"A", "v", "e", "r", "a", "g", "e", "_", "P">>
Average_F == <<"A", "v", "e", "r", "a", "g", "e", "_", "F">>
recall == <<"r", "e", "c", "a", "l", "l">>
precision == <<"p", "r", "e", "c", "i", "s", "i", "o", "n">>
f_score == <<"f", "_", "s", "c", "o", "r", "e">>

\* The lookup in the dict literal of lines 413-417.
measure_of(measure) ==
    IF measure = Average_R THEN Return(recall)
    ELSE IF measure = Average_P THEN Return(precision)
    ELSE IF measure = Average_F THEN Return(f_score)
    ELSE Raise("KeyError")

\* The integer a string of digits denotes.
RECURSIVE int_of_digits(_)
int_of_digits(s) ==
    IF s = <<>> THEN 0
    ELSE 10 * int_of_digits(SubSeq(s, 1, Len(s) - 1)) + DigitValue(s[Len(s)])

\* A number m * 10^e, written the one way that has no trailing zero in m.
RECURSIVE Number(_, _)
Number(m, e) ==
    IF m = 0 THEN [m |-> 0, e |-> 0]
    ELSE IF m % 10 = 0 THEN Number(m \div 10, e + 1)
    ELSE [m |-> m, e |-> e]

\* float(s) on the strings the groups (\d.\d+) capture: a digit, any one
\* character, digits.  The character may be the point, a digit, or the 'e' of
\* an exponent; float() takes no other.
py_float(s) ==
    IF s[2] = "." THEN
        Return(Number(int_of_digits(<<s[1]>> \o SubSeq(s, 3, Len(s))), 2 - Len(s)))
    ELSE IF s[2] \in Digits THEN Return(Number(int_of_digits(s), 0))
    ELSE IF s[2] \in {"e", "E"} THEN
        Return(Number(DigitValue(s[1]), int_of_digits(SubSeq(s, 3, Len(s)))))
    ELSE Raise("ValueError")

\* results[key] = value
SetItem(results, key, value) ==
    [k \in DOMAIN results \cup {key} |-> IF k = key THEN value ELSE results[k]]

\* The body of the loop of output_to_dict for one line, lines 409-422.
parse_line(results, match) ==
    IF ~match.ok THEN Return(results)
    ELSE Bind(measure_of(match.groups[3]), LAMBDA measure :
         With(StrReplace(StrLower(match.groups[2]), <<"-">>, <<"_">>)
                  \o <<"_">> \o measure, LAMBDA key :
         Bind(py_float(match.groups[4]), LAMBDA result :
         Bind(py_float(match.groups[5]), LAMBDA conf_begin :
         Bind(py_float(match.groups[6]), LAMBDA conf_end :
             Return(SetItem(SetItem(SetItem(results, key, result),
                                    key \o <<"_", "c", "b">>, conf_begin),
                            key \o <<"_", "c", "e">>, conf_end)))))))

\* The loop of output_to_dict over output.split("\n").
RECURSIVE parse_lines(_, _, _)
parse_lines(lines, pattern, results) ==
    IF lines = <<>> THEN Return(results)
    ELSE Bind(parse_line(results, re_match(pattern, lines[1])),
              LAMBDA r : parse_lines(Tail(lines), pattern, r))

\* output_to_dict: the dictionary it returns, or the exception that leaves it.
output_to_dict(output_text) ==
    parse_lines(StrSplit(output_text, "\n"), re_compile(ReportPattern), <<>>)

\* A line of ROUGE's report, from its six fields.
ReportLine(sys_id, rouge_type, measure, result, conf_begin, conf_end) ==
    sys_id \o <<" ">> \o rouge_type \o <<" ">> \o measure \o <<":", " ">> \o result
    \o <<" ", "(", "9", "5", "%", "-", "c", "o", "n", "f", ".", "i", "n", "t", ".", " ">>
    \o conf_begin \o <<" ", "-", " ">> \o conf_end \o <<")">>

ROUGE_1 == <<"R", "O", "U", "G", "E", "-", "1">>
ROUGE_L == <<"R", "O", "U", "G", "E", "-", "L">>

\* The lines of the outputs parsed: report lines for three keys, a second
\* line for one of the keys, a report line with another measure suffix, one
\* whose value is not a number, one followed by more text, a separator line
\* and the empty line.
LineF ==
    ReportLine(<<"1">>, ROUGE_1, Average_F, <<"0", ".", "9", "5", "6", "5", "2">>,
               <<"0", ".", "9", "4", "0", "0", "0">>,
               <<"0", ".", "9", "7", "0", "0", "0">>)
LineR ==
    ReportLine(<<"1">>, ROUGE_1, Average_R, <<"0", ".", "5">>, <<"0", ".", "4">>,
               <<"0", ".", "6">>)
LineP ==
    ReportLine(<<"1", "2">>, ROUGE_L, Average_P, <<"0", ".", "2", "5">>,
               <<"0", ".", "2", "0">>, <<"0", ".", "3", "0">>)
LineR2 ==
    ReportLine(<<"2">>, ROUGE_1, Average_R, <<"0", ".", "7">>, <<"0", ".", "6">>,
               <<"0", ".", "8">>)
LineX ==
    ReportLine(<<"1">>, ROUGE_1, <<"A", "v", "e", "r", "a", "g", "e", "_", "X">>,
               <<"0", ".", "5">>, <<"0", ".", "4">>, <<"0", ".", "6">>)
LineHex ==
    ReportLine(<<"1">>, ROUGE_1, Average_R, <<"0", "x", "5">>, <<"0", ".", "4">>,
               <<"0", ".", "6">>)
LineTail == LineR \o <<" ", "+">>
LineRule == <<"-", "-", "-", "-", "-", "-", "-", "-">>
LineEmpty == <<>>

Lines == {LineF, LineR, LineP, LineR2, LineX, LineHex, LineTail, LineRule, LineEmpty}

\* How many lines an output holds at most.
MaxLines == 2

\* "\n".join(lines)
RECURSIVE JoinLines(_)
JoinLines(lines) ==
    IF lines = <<>> THEN <<>>
    ELSE IF Len(lines) = 1 THEN lines[1]
    ELSE lines[1] \o <<"\n">> \o JoinLines(Tail(lines))

Outputs == {JoinLines(l) : l \in UNION {[1..n -> Lines] : n \in 0..MaxLines}}

\* A call of output_to_dict on the output held.
OutputToDict ==
    \E r \in {output_to_dict(output)} :
        /\ parsed' = r
        /\ last' = Call("output_to_dict", PyNone, NonePath, PyNone, <<>>, r.exc)
        /\ UNCHANGED <<systemDir, modelDir, fs, inst, tmpCount, runs,
                       evalIn, evalOut, output, insts, procs>>

\* An output of the ROUGE script, not yet parsed.
InitParse ==
    /\ output \in Outputs
    /\ systemDir = {}
    /\ modelDir = {}
    /\ fs = <<>>
    /\ last = NoCall
    /\ inst = NoInstance
    /\ tmpCount = 0
    /\ runs = <<>>
    /\ evalIn = NoEval
    /\ evalOut = <<>>
    /\ parsed = NoParse
    /\ insts = <<>>
    /\ procs = <<>>

NextParse == OutputToDict

SpecParse == InitParse /\ [][NextParse]_vars

(***************************************************************************)
(* What a report says, stated without the parser                           *)
(***************************************************************************)

\* The form '<int> ROUGE-<kind> Average_<m>: <v> (95%-conf.int. <lo> - <hi>)'
\* for one measure letter m, the whole line, each number a digit, a point and
\* digits.
FormPattern(m) ==
    <<"(", "\\", "d", "+", ")", " ", "(", "R", "O", "U", "G", "E", "-", "\\",
      "S", "+", ")", " ", "A", "v", "e", "r", "a", "g", "e", "_", m>> \o
    <<":", " ", "(", "\\", "d", "\\", ".", "\\", "d", "+", ")", " ", "\\",
      "(", "9", "5", "%", "-", "c", "o", "n", "f", "\\", ".", "i", "n", "t",
      "\\", ".", " ", "(", "\\", "d", "\\", ".", "\\", "d", "+", ")", " ",
      "-", " ", "(", "\\", "d", "\\", ".", "\\", "d", "+", ")", "\\", ")",
      "$">>

MeasureNames == [R |-> recall, P |-> precision, F |-> f_score]

\* The measure letters under which the line has the form: one at most.
FormLetters(line) ==
    {m \in DOMAIN MeasureNames : re_match(re_compile(FormPattern(m)), line).ok}

WellFormed(line) == FormLetters(line) # {}

\* The fields of a well-formed line and the key it reports under.
FieldsOf(line) ==
    re_match(re_compile(FormPattern(CHOOSE m \in FormLetters(line) : TRUE)), line).groups

KeyOf(line) ==
    [i \in 1..Len(FieldsOf(line)[2]) |->
        IF FieldsOf(line)[2][i] = "-" THEN "_" ELSE LowerChar(FieldsOf(line)[2][i])]
    \o <<"_">> \o MeasureNames[CHOOSE m \in FormLetters(line) : TRUE]

\* The value of the decimal numeral d.ddd
DecimalOf(s) == Number(DecimalValue(<<s[1]>> \o SubSeq(s, 3, Len(s))), 2 - Len(s))

\* The entries a sequence of lines reports: three for every well-formed line,
\* a later line replacing an earlier one's.
RECURSIVE Reported(_)
Reported(lines) ==
    IF lines = <<>> THEN <<>>
    ELSE LET before == Reported(SubSeq(lines, 1, Len(lines) - 1))
             line == lines[Len(lines)]
         IN  IF ~WellFormed(line) THEN before
             ELSE LET key == KeyOf(line)
                      own == (key :> DecimalOf(FieldsOf(line)[3]))
                             @@ ((key \o <<"_", "c", "b">>) :> DecimalOf(FieldsOf(line)[4]))
                             @@ ((key \o <<"_", "c", "e">>) :> DecimalOf(FieldsOf(line)[5]))
                  IN  own @@ before

(***************************************************************************)
(* C9  Parser correctness                                                  *)
(***************************************************************************)

\* C9: the parser returns, for every output, exactly the entries of its
\* well-formed lines: key -> v, key_cb -> lo, key_ce -> hi for each, nothing
\* for any other line, and the empty mapping when no line is well-formed.
C9_ParserCorrectness ==
    last.op = "output_to_dict"
    => /\ parsed.exc = ""
       /\ parsed.val = Reported(StrSplit(output, "\n"))

(***************************************************************************)
(* C10  Parser tolerance                                                   *)
(***************************************************************************)

\* C10: the parser raises on no output, and the keys of every well-formed
\* line are in what it returns, whatever other lines the output holds.
C10_ParserTolerance ==
    last.op = "output_to_dict"
    => /\ parsed.exc = ""
       /\ \A k \in 1..Len(StrSplit(output, "\n")) :
              WellFormed(StrSplit(output, "\n")[k])
              => KeyOf(StrSplit(output, "\n")[k]) \in DOMAIN parsed.val

(***************************************************************************)
(* C11  Command-line shape                                                 *)
(***************************************************************************)

\* The document write_config_staticA writes for the instance's directories
\* and the labels given, for some order of the listings.
IsDocumentFor(text, sid) ==
    \E sorted_system_filenames \in SortedListings(systemDir),
       model_listing \in Listings(modelDir) :
        write_config_staticA(sorted_system_filenames, SystemPattern, model_listing,
                             ModelPattern, sid)
            = Return(text)

\* C11: every call of evaluate that gets past write_config runs exactly one
\* command, [interpreter, tool path, ...options, '-m', document path], whose
\* last two elements are '-m' and the configuration file that call's
\* write_config step wrote, whichever source the options come from.
C11_CommandLineShape ==
    [][ last'.op = "evaluate" =>
          /\ last'.exc \in {"", "CalledProcessError"} <=> runs' # <<>>
          /\ runs' # <<>> =>
                /\ Len(runs') = 1
                /\ Len(runs'[1]) >= 4
                /\ runs'[1][1] = PerlPath
                /\ runs'[1][2] = BinPath
                /\ runs'[1][Len(runs'[1]) - 1] = <<"-", "m">>
                /\ runs'[1][Len(runs'[1])] = inst'.config_file
                /\ inst'.config_file \in DOMAIN fs'
                /\ IsDocumentFor(fs'[inst'.config_file], last'.sid) ]_vars

\* An evaluate call whose options come from the constructor although the
\* call supplied its own, run on a document with a task that it wrote to the
\* caller's path.
C11_Witness ==
    /\ last.op = "evaluate"
    /\ runs # <<>>
    /\ Truthy(inst.args)
    /\ Truthy(last.rouge_args)
    /\ last.cpath = SomePath(ConfigPath)
    /\ Len(DocTasks(fs[ConfigPath])) = 1

(***************************************************************************)
(* C12  Resolve, write, invoke                                             *)
(***************************************************************************)

\* The exceptions that leave resolution and the writing of the document.
WriteExceptions == {"Exception", "TypeError", "IndexError"}

Count(text, tok) == Cardinality({i \in 1..Len(text) : text[i] = tok})

\* The file at path holds a whole document: opened, closed, every task closed.
CompleteDocument(files, path) ==
    /\ path \in DOMAIN files
    /\ Len(files[path]) >= 2
    /\ files[path][1] = DocOpen
    /\ files[path][Len(files[path])] = DocClose
    /\ Count(files[path], EvalOpen) = Count(files[path], EvalClose)

\* C12: one evaluate call starts the ROUGE script at most once, also when the
\* script fails, and only with the whole document written; when resolution or
\* writing raises, the call does not start it.
C12_ResolveWriteInvoke ==
    [][ last'.op = "evaluate" =>
          /\ Len(runs') <= 1
          /\ runs' # <<>> => CompleteDocument(fs', inst'.config_file)
          /\ last'.exc \in WriteExceptions => (runs' = <<>> /\ fs' = fs)
          /\ last'.exc = "CalledProcessError" => Len(runs') = 1 ]_vars

\* An evaluate call whose resolution raised, at a path where an earlier call
\* left a document: the script was not started.
C12_Witness ==
    /\ last.op = "evaluate"
    /\ last.exc = "Exception"
    /\ WritablePath(last)
    /\ last.path \in DOMAIN fs
    /\ runs = <<>>

(***************************************************************************)
(* Concurrent runs.  Several threads call write_config() or evaluate()     *)
(* without a configuration path, on the same instance or on different      *)
(* ones.  A thread can be preempted between any two statements, so a run   *)
(* is split where it stores or loads a field of the instance: the store of *)
(* _config_dir (line 308), the load of _config_dir and the store of        *)
(* _config_file (line 313), the load of _config_file for the document      *)
(* (lines 314-317), and its load for the -m option (lines 336-337, 629).   *)
(***************************************************************************)
MaxRuns == 2
MaxInsts == 2

Threads == 1..MaxRuns
InstIds == 1..MaxInsts

NoRun == [pc |-> "idle", self |-> 0, op |-> "none", wrote |-> <<>>, cmd |-> <<>>, exc |-> ""]

\* A thread enters write_config(system_id=['x']) or evaluate(['x']) of an
\* instance; config_file_path is None.
Enter(t) ==
    /\ procs[t].pc = "idle"
    /\ \E self \in InstIds, op \in {"write_config", "evaluate"} :
          procs' = [procs EXCEPT ![t] = [NoRun EXCEPT !.pc = "mkdtemp", !.self = self,
                                                      !.op = op]]
    /\ UNCHANGED <<systemDir, modelDir, fs, last, inst, tmpCount, runs,
                   evalIn, evalOut, output, parsed, insts>>

\* Lines 307-309: self._config_dir = mkdtemp().
MakeTempDir(t) ==
    /\ procs[t].pc = "mkdtemp"
    /\ tmpCount < MaxTmp
    /\ tmpCount' = tmpCount + 1
    /\ insts' = [insts EXCEPT ![procs[t].self].config_dir = mkdtemp(tmpCount + 1)]
    /\ procs' = [procs EXCEPT ![t].pc = "join"]
    /\ UNCHANGED <<systemDir, modelDir, fs, last, inst, runs,
                   evalIn, evalOut, output, parsed>>

\* Line 313: self._config_file = os.path.join(self._config_dir, "rouge_conf.xml").
SetConfigFile(t) ==
    /\ procs[t].pc = "join"
    /\ insts' = [insts EXCEPT ![procs[t].self].config_file =
                     os_path_join(insts[procs[t].self].config_dir, <<"rouge_conf.xml">>)]
    /\ procs' = [procs EXCEPT ![t].pc = "write"]
    /\ UNCHANGED <<systemDir, modelDir, fs, last, inst, tmpCount, runs,
                   evalIn, evalOut, output, parsed>>

\* Lines 314-317: the document is resolved and written to self._config_file.
WriteDocument(t) ==
    /\ procs[t].pc = "write"
    /\ \E sorted_system_filenames \in SortedListings(systemDir),
          model_listing \in Listings(modelDir) :
          \E w \in {write_config_file(insts[procs[t].self], fs, tmpCount,
                        write_config_staticA(sorted_system_filenames, SystemPattern,
                                             model_listing, ModelPattern,
                                             PyList(<<LabelX>>)))} :
              /\ fs' = w.files
              /\ procs' = [procs EXCEPT ![t].pc = IF w.exc = "" /\ procs[t].op = "evaluate"
                                                  THEN "invoke" ELSE "done",
                                        ![t].wrote = IF w.exc = ""
                                                     THEN insts[procs[t].self].config_file
                                                     ELSE <<>>,
                                        ![t].exc = w.exc]
    /\ UNCHANGED <<systemDir, modelDir, last, inst, tmpCount, runs,
                   evalIn, evalOut, output, parsed, insts>>

\* Lines 336-341 of evaluate: the options, with -m self._config_file, and the
\* command.
Invoke(t) ==
    /\ procs[t].pc = "invoke"
    /\ procs' = [procs EXCEPT ![t].pc = "done",
                              ![t].cmd = <<PerlPath, BinPath>>
                                         \o get_options(insts[procs[t].self], PyNone)]
    /\ UNCHANGED <<systemDir, modelDir, fs, last, inst, tmpCount, runs,
                   evalIn, evalOut, output, parsed, insts>>

\* Instances just constructed over the same two directories; no thread has
\* called anything yet.
InitRuns ==
    /\ systemDir = InstSystemFiles
    /\ modelDir \in SUBSET InstModelFiles
    /\ insts = [self \in InstIds |-> NoInstance]
    /\ procs = [t \in Threads |-> NoRun]
    /\ fs = <<>>
    /\ last = NoCall
    /\ inst = NoInstance
    /\ tmpCount = 0
    /\ runs = <<>>
    /\ evalIn = NoEval
    /\ evalOut = <<>>
    /\ output = <<>>
    /\ parsed = NoParse

NextRuns ==
    \E t \in Threads :
        \/ Enter(t)
        \/ MakeTempDir(t)
        \/ SetConfigFile(t)
        \/ WriteDocument(t)
        \/ Invoke(t)

SpecRuns == InitRuns /\ [][NextRuns]_vars

\* The runs that have written their document.
Written == {t \in Threads : procs[t].wrote # <<>>}

\* The runs that have built their command.
Invoked == {t \in Threads : procs[t].cmd # <<>>}

\* C13: of the runs made without a configuration path, in any interleaving and
\* on the same or on different instances, no two write the same document path,
\* each writes into a temporary directory, and the path a run passes after -m
\* is the path it wrote itself.
C13_IndependentTempPaths ==
    /\ \A t \in Written, u \in Written : t # u => procs[t].wrote # procs[u].wrote
    /\ \A t \in Written : \E n \in 1..MaxTmp :
          procs[t].wrote = os_path_join(mkdtemp(n), <<"rouge_conf.xml">>)
    /\ \A t \in Invoked :
          procs[t].cmd[Len(procs[t].cmd)] = procs[t].wrote

(***************************************************************************)
(* The configuration path a caller gives.                                  *)
(***************************************************************************)

\* The calls of write_config that were given a non-empty path and returned.
GivenPath(call) ==
    /\ call.op = "write_config"
    /\ call.exc = ""
    /\ ~call.cpath.none
    /\ call.cpath.p # <<>>

\* C14: after a successful write_config(config_file_path) with a non-empty
\* path, with or without a directory part, config_file is exactly that path,
\* the document was written there, and no temporary directory was created.
C14_CallerPathHonoured ==
    [][ GivenPath(last') =>
          /\ inst'.config_file = last'.cpath.p
          /\ last'.cpath.p \in DOMAIN fs'
          /\ IsDocumentFor(fs'[last'.cpath.p], last'.sid)
          /\ tmpCount' = tmpCount ]_vars

(***************************************************************************)
(* Where the options of a command come from.                               *)
(***************************************************************************)

\* The options of a command: what stands between the tool path and -m.
OptionsOf(command) == SubSeq(command, 3, Len(command) - 2)

\* The default argument set, as it appears on a command line.
DefaultOptions ==
    << <<"-", "e">>, DataDir, <<"-", "c">>, <<"9", "5">>, <<"-", "U">>,
       <<"-", "r">>, <<"1", "0", "0", "0">>, <<"-", "n">>, <<"4">>, <<"-", "a">> >>

\* C15: the options of an evaluate call come from one source: when the caller
\* supplies rouge_args they are exactly those arguments, split at whitespace;
\* the defaults are used only when no arguments were supplied at construction
\* or at the call; otherwise they are the arguments given at construction.
C15_OptionSource ==
    [][ (last'.op = "evaluate" /\ runs' # <<>>) =>
          /\ Truthy(last'.rouge_args) =>
                OptionsOf(runs'[1]) = str_split(last'.rouge_args.v[1])
          /\ OptionsOf(runs'[1]) = DefaultOptions =>
                (~Truthy(inst'.args) /\ ~Truthy(last'.rouge_args))
          /\ (~Truthy(last'.rouge_args) /\ Truthy(inst'.args)) =>
                OptionsOf(runs'[1]) = str_split(inst'.args.v[1]) ]_vars

(***************************************************************************)
(* The peers of a multi-variant document                                   *)
(***************************************************************************)

\* The candidates of every label of a call, each list ascending.
CandidateLists(call) ==
    [j \in 1..Len(Labels(call.sid)) |->
        AscendingSeq(VariantCandidates(Labels(call.sid)[j]))]

\* A label after the first matched fewer candidates than the first.
LaterVariantShort(call) ==
    \E j \in 2..Len(Labels(call.sid)) :
        Len(CandidateLists(call)[j]) < Len(CandidateLists(call)[1])

\* The candidates of each label beyond the number the first label matched.
Surplus(call) ==
    UNION {{CandidateLists(call)[j][p] :
               p \in (Len(CandidateLists(call)[1]) + 1)..Len(CandidateLists(call)[j])} :
           j \in 2..Len(Labels(call.sid))}

\* C16: every task of a document written by write_config_staticA has one
\* peer per label, in label order; if a later label matched fewer candidates
\* than the first, the call raises and the configuration file is left as it
\* was; if it matched more, the surplus candidates are in no task.
C16_PeerCount ==
    [][ last'.op = "write_config_staticA" =>
          /\ last'.exc = "" =>
                \A tasks \in {DocTasks(fs'[last'.path])}, surplus \in {Surplus(last')} :
                    \A p \in 1..Len(tasks) :
                        /\ Ids(tasks[p].peers) = Labels(last'.sid)
                        /\ Range(Names(tasks[p].peers)) \cap surplus = {}
          /\ (Iterable(last'.sid) /\ LaterVariantShort(last')) =>
                (last'.exc # "" /\ fs' = fs) ]_vars

\* A call with two labels raised because the second label had fewer
\* candidates, and the document of an earlier call is still there.
C16_Witness ==
    /\ last.op = "write_config_staticA"
    /\ last.exc = "IndexError"
    /\ Len(Labels(last.sid)) = 2
    /\ LaterVariantShort(last)
    /\ CandidateLists(last)[2] # <<>>
    /\ ConfigPath \in DOMAIN fs

(***************************************************************************)
(* convert_and_evaluate against evaluate                                   *)
(***************************************************************************)

\* What evaluate(system_id, rouge_args=X) does when it is called in place of
\* the last step of the call, after the conversion: its commands, whether it
\* took a temporary directory for the configuration file, and its exception.
SameAsEvaluate(before, files, tmp, after, cmds, call) ==
    \E sorted_system_filenames \in SortedListings(systemDir),
       model_listing \in Listings(modelDir), status \in ExitStatuses :
        \E e \in {evaluate(before, files, process_summaries(tmp),
                           sorted_system_filenames, model_listing, call.sid,
                           NonePath, call.rouge_args, status)} :
            /\ cmds = e.cmds
            /\ after.config_file = e.self.config_file
            /\ call.exc = e.exc

\* C17: convert_and_evaluate(system_id, rouge_args=X) builds the command and
\* chooses the place of the configuration file as evaluate(system_id,
\* rouge_args=X) does on the converted directories; X, when given, is the
\* option list and is not taken for the configuration path.
C17_ConvertThenEvaluate ==
    [][ last'.op = "convert_and_evaluate" =>
          /\ SameAsEvaluate(inst, fs, tmpCount, inst', runs', last')
          /\ (runs' # <<>> /\ Truthy(last'.rouge_args) /\ ~Truthy(inst'.args)) =>
                OptionsOf(runs'[1]) = str_split(last'.rouge_args.v[1]) ]_vars

====
